---- MODULE Spec2Model ----
(***************************************************************************)
(* Lockstep zip engine of faster (src/zip.rs): Zip over a tuple of N       *)
(* vectorized streams, the SIMDZipMap adaptor and the eager consumers      *)
(* simd_do_each / simd_reduce.                                             *)
(*                                                                         *)
(* Members of the tuple are indexed 0..N-1 as in the source (iters.0 is    *)
(* the leader, iters.1 .. iters.(N-1) the followers).  A vector is a       *)
(* sequence of W lanes; a lane is <<j>> when it holds element j of its     *)
(* stream's data and <<>> when it holds the stream's default value.        *)
(***************************************************************************)
EXTENDS Integers, Sequences, FiniteSets, TLC

\* ---- bounds of the model
MaxN == 3
MaxLen == 4
MaxW == 3
MaxAdv == 2

\* ---- the doc example of simd_reduce: a stream of 100 elements
ScenarioLen == 100

VARIABLES
    N,        \* arity of the tuple handed to zip()
    W,        \* width(): lanes per vector, shared by the members
    lens,     \* lens[i]: len() = scalar_len() of member i
    esize,    \* esize[i]: size() of member i (scalar size)
    pos,      \* pos[i]: scalar_pos() of member i
    mode,     \* "tuple" | "zip" | "map" | "panic"
    func,     \* SIMDZipMap.func: "none" | "id" | "sum"
    msize,    \* size() of the SIMDZipMap (scalar size of A)
    op,       \* the last operation called
    ret,      \* what the last operation returned
    inner,    \* what the wrapped iterator returned inside the last SIMDZipMap call
    arg,      \* amount of the last call, when it was an advance(amount); else 0
    unch,     \* the unchecked follower accesses the last call issued:
              \* [i, p, n] for next_unchecked(p) (n = W) or end_unchecked(p, n)
              \* on member i
    trav,     \* shape of the calls so far: "next" | "drained" | "ended" | "off"
    advanced, \* advance() has been called on the engine
    fin,      \* finalize() has been called on the engine
    yields,   \* values next() has yielded in the traversal from position 0
              \* (0 once trav = "off": the calls are no such traversal)
    fcalls,   \* invocations of the SIMDZipMap transform
    myields,  \* values yielded by the SIMDZipMap
    cpc,      \* consumer position: "idle" | "loop" | "tail" | "done"
    ckind,    \* "none" | "each" | "reduce"
    cstart,   \* leader position when the consumer was entered
    cinit,    \* the lane value of simd_reduce's start accumulator
    cfresh,   \* the consumer was entered on a freshly constructed engine
    calls,    \* arguments func was called with by the running consumer
    lanes,    \* valid lanes the running consumer was handed by next() and end()
    cnt,      \* cnt[i][j]: times the running consumer was handed index j of
              \* member i as a valid lane
    cends,    \* end() calls made by the running consumer
    acc       \* accumulator of simd_reduce

vars == <<N, W, lens, esize, pos, mode, func, msize, op, ret, inner, arg, unch, trav,
          advanced, fin, yields, fcalls, myields,
          cpc, ckind, cstart, cinit, cfresh, calls, lanes, cnt, cends, acc>>

params == <<N, W, lens, esize>>
cvars == <<cpc, ckind, cstart, cinit, cfresh, calls, lanes, cnt, cends, acc>>
mvars == <<func, msize, fcalls, myields, inner>>

Members == 0 .. (N - 1)
Followers == 1 .. (N - 1)

Min(a, b) == IF a < b THEN a ELSE b

None == [some |-> FALSE, v |-> <<>>, n |-> 0]
Some(v, n) == [some |-> TRUE, v |-> v, n |-> n]

\* ---- element values: every element of member i is i + 2 (2.0 and 3.0 for the
\* pair of the doc example), and a default lane holds 0 (f32s(0.0)).
Elem(i, j) == i + 2
Value(i, lane) == IF lane = <<>> THEN 0 ELSE Elem(i, lane[1])

RECURSIVE SumMembers(_, _, _)
SumMembers(v, k, i) ==
    IF i < 0 THEN 0 ELSE Value(i, v[i][k]) + SumMembers(v, k, i - 1)

\* ---- the vectorized stream the engine consumes (crate::iters)
FullVector(p) == [k \in 1 .. W |-> <<p + k - 1>>]
TailVector(p, n) == [k \in 1 .. W |-> IF k <= n THEN <<p + k - 1>> ELSE <<>>]

StreamNext(i, p) ==
    IF p + W <= lens[i] THEN Some(FullVector(p), W) ELSE None
StreamNextPos(i, p) ==
    IF p + W <= lens[i] THEN p + W ELSE p
StreamEnd(i, p) ==
    IF p < lens[i]
    THEN Some(TailVector(p, Min(W, lens[i] - p)), Min(W, lens[i] - p))
    ELSE None
StreamEndPos(i, p) ==
    IF p < lens[i] THEN p + Min(W, lens[i] - p) ELSE p
StreamAdvancePos(i, p, amount) == p + amount
NextUnchecked(i, p) == FullVector(p)
NextUncheckedPos(i, p) == p + W
EndUnchecked(i, p, n) == TailVector(p, n)
EndUncheckedPos(i, p, n) == p + n

\* ---- Zip (impl_iter_zip!)
ZipLen_Remaining == lens[0] - pos[0]
ZipLen == lens[0]
ZipWidth == W
ZipSize == esize[0]
ZipScalarPos == pos[0]
ZipScalarLen == ZipLen
ZipVectorLen == ZipScalarLen \div ZipWidth
ZipVectorPos == ZipScalarPos \div ZipWidth

ZipPanics_LeaderShorter == \E n \in Followers : lens[0] < lens[n]
ZipPanics_FirstPairOnly == lens[0] # lens[1]
ZipPanics == \E n \in Followers : lens[0] # lens[n]

ZipNextRet_OwnPosition ==
    LET p == pos[0]
        r == StreamNext(0, p)
    IN  IF r.some
        THEN Some([i \in Members |->
                      IF i = 0 THEN r.v ELSE NextUnchecked(i, pos[i])], W)
        ELSE None
ZipNextRet ==
    LET p == pos[0]
        r == StreamNext(0, p)
    IN  IF r.some
        THEN Some([i \in Members |-> IF i = 0 THEN r.v ELSE NextUnchecked(i, p)], W)
        ELSE None
ZipNextPos_OwnPosition ==
    LET p == pos[0]
        r == StreamNext(0, p)
    IN  IF r.some
        THEN [i \in Members |->
                 IF i = 0 THEN StreamNextPos(0, p) ELSE NextUncheckedPos(i, pos[i])]
        ELSE pos
ZipNextPos_Eager ==
    LET p == pos[0]
    IN  [i \in Members |->
            IF i = 0 THEN StreamNextPos(0, p) ELSE NextUncheckedPos(i, p)]
ZipNextPos_Twice ==
    LET p == pos[0]
        r == StreamNext(0, p)
    IN  IF r.some
        THEN [i \in Members |->
                 IF i = 0 THEN StreamNextPos(0, StreamNextPos(0, p))
                 ELSE NextUncheckedPos(i, p)]
        ELSE pos
ZipNextPos ==
    LET p == pos[0]
        r == StreamNext(0, p)
    IN  IF r.some
        THEN [i \in Members |->
                 IF i = 0 THEN StreamNextPos(0, p) ELSE NextUncheckedPos(i, p)]
        ELSE pos

ZipEndRet_FullCount ==
    LET p == pos[0]
        r == StreamEnd(0, p)
    IN  IF r.some
        THEN Some([i \in Members |->
                      IF i = 0 THEN r.v ELSE EndUnchecked(i, p, W)], r.n)
        ELSE None
ZipEndRet_PosAfterEnd ==
    LET p == pos[0]
        r == StreamEnd(0, p)
    IN  IF r.some
        THEN Some([i \in Members |->
                      IF i = 0 THEN r.v
                      ELSE EndUnchecked(i, StreamEndPos(0, p), r.n)], r.n)
        ELSE None
ZipEndRet ==
    LET p == pos[0]
        r == StreamEnd(0, p)
    IN  IF r.some
        THEN Some([i \in Members |->
                      IF i = 0 THEN r.v ELSE EndUnchecked(i, p, r.n)], r.n)
        ELSE None
ZipEndPos_Stay == pos
ZipEndPos ==
    LET p == pos[0]
        r == StreamEnd(0, p)
    IN  IF r.some
        THEN [i \in Members |->
                 IF i = 0 THEN StreamEndPos(0, p) ELSE EndUncheckedPos(i, p, r.n)]
        ELSE pos

\* the next_unchecked / end_unchecked calls inside the closures of next() and end()
ZipNextAccess ==
    LET p == pos[0]
        r == StreamNext(0, p)
    IN  IF r.some THEN {[i |-> i, p |-> p, n |-> W] : i \in Followers} ELSE {}
ZipEndAccess ==
    LET p == pos[0]
        r == StreamEnd(0, p)
    IN  IF r.some THEN {[i |-> i, p |-> p, n |-> r.n] : i \in Followers} ELSE {}

ZipAdvancePos_All(amount) == [i \in Members |-> pos[i] + amount]
ZipAdvancePos(amount) ==
    [pos EXCEPT ![0] = StreamAdvancePos(0, pos[0], amount)]

\* ---- bookkeeping of what the engine has handed out
ZeroCnt == [i \in Members |-> [j \in 0 .. (lens[i] - 1) |-> 0]]
Hits(vec, j) == Cardinality({k \in 1 .. W : vec[k] = <<j>>})
Counted(r) ==
    IF r.some
    THEN [i \in Members |-> [j \in 0 .. (lens[i] - 1) |-> cnt[i][j] + Hits(r.v[i], j)]]
    ELSE cnt

TravNext(r) ==
    CASE trav = "next" -> IF r.some THEN "next" ELSE "drained"
      [] trav = "drained" -> IF r.some THEN "off" ELSE "drained"
      [] trav = "ended" -> "after"
      [] OTHER -> trav
TravEnd ==
    CASE trav = "next" -> "off"
      [] trav = "drained" -> "ended"
      [] trav = "ended" -> "after"
      [] OTHER -> trav

\* self.next() on the Zip, with its result r
CallNext(r) ==
    /\ pos' = ZipNextPos
    /\ unch' = ZipNextAccess
    /\ arg' = 0
    /\ yields' = IF TravNext(r) = "off" THEN 0
                 ELSE IF r.some THEN yields + 1 ELSE yields
    /\ trav' = TravNext(r)
    /\ UNCHANGED <<params, mode, advanced, fin>>

\* self.end() on the Zip, with its result r
CallEnd(r) ==
    /\ pos' = ZipEndPos
    /\ unch' = ZipEndAccess
    /\ arg' = 0
    /\ yields' = IF TravEnd = "off" THEN 0 ELSE yields
    /\ trav' = TravEnd
    /\ UNCHANGED <<params, mode, advanced, fin>>

\* scalar sizes (bytes) of the member streams and of a transform's output
Sizes == {1, 2}

Init ==
    /\ N \in 2 .. MaxN
    /\ W \in 1 .. MaxW
    /\ lens \in [Members -> 0 .. MaxLen]
    /\ esize \in [Members -> Sizes]
    /\ \A i, j \in Followers : esize[i] = esize[j]
    /\ pos = [i \in Members |-> 0]
    /\ mode = "tuple"
    /\ func = "none"
    /\ msize = 1
    /\ op = "new"
    /\ ret = None
    /\ inner = None
    /\ arg = 0
    /\ unch = {}
    /\ trav = "next"
    /\ advanced = FALSE
    /\ fin = FALSE
    /\ yields = 0
    /\ lanes = 0
    /\ cnt = ZeroCnt
    /\ fcalls = 0
    /\ myields = 0
    /\ cpc = "idle"
    /\ ckind = "none"
    /\ cstart = 0
    /\ cinit = 0
    /\ cfresh = FALSE
    /\ calls = <<>>
    /\ cends = 0
    /\ acc = <<>>

\* IntoSIMDZip::zip
Zip ==
    /\ mode = "tuple"
    /\ mode' = IF ZipPanics THEN "panic" ELSE "zip"
    /\ op' = "zip"
    /\ ret' = None
    /\ unch' = {}
    /\ arg' = 0
    /\ UNCHANGED <<params, pos, trav, advanced, fin, yields>>
    /\ UNCHANGED <<mvars, cvars>>

Idle == mode = "zip" /\ cpc \in {"idle", "done"}

\* a call from outside a consumer: the last consumer's results are gone
NoConsumer ==
    /\ cpc' = "idle"
    /\ ckind' = "none"
    /\ cstart' = 0
    /\ cinit' = 0
    /\ cfresh' = FALSE
    /\ calls' = <<>>
    /\ lanes' = 0
    /\ cnt' = ZeroCnt
    /\ cends' = 0
    /\ acc' = <<>>

\* Iterator::next for Zip
ZipNext ==
    /\ Idle
    /\ op' = "next"
    /\ ret' = ZipNextRet
    /\ CallNext(ZipNextRet)
    /\ NoConsumer
    /\ UNCHANGED mvars

\* SIMDZippedIterator::end for Zip
ZipEnd ==
    /\ Idle
    /\ op' = "end"
    /\ ret' = ZipEndRet
    /\ CallEnd(ZipEndRet)
    /\ NoConsumer
    /\ UNCHANGED mvars

\* SIMDZippedIterable::advance for Zip
ZipAdvance ==
    /\ Idle
    /\ \E amount \in 0 .. MaxAdv :
          /\ pos[0] + amount <= lens[0] + MaxAdv
          /\ pos' = ZipAdvancePos(amount)
          /\ arg' = amount
    /\ op' = "advance"
    /\ ret' = None
    /\ unch' = {}
    /\ trav' = "off"
    /\ yields' = 0
    /\ advanced' = TRUE
    /\ UNCHANGED <<params, mode, fin>>
    /\ NoConsumer
    /\ UNCHANGED mvars

\* let end = self.scalar_len() - self.scalar_pos()
FinalizeAmount_WholeVectors == ZipVectorLen * ZipWidth - ZipScalarPos
FinalizeAmount == ZipScalarLen - ZipScalarPos

\* SIMDZippedIterable::finalize: scalar_len() - scalar_pos() is a usize
\* subtraction; below zero it panics (overflow checks on) or wraps, and the
\* wrapped amount brings the leader to scalar_len.
ZipFinalize ==
    /\ Idle
    /\ op' = "finalize"
    /\ ret' = None
    /\ unch' = {}
    /\ arg' = 0
    /\ \/ /\ ZipScalarPos <= ZipScalarLen
          /\ pos' = ZipAdvancePos(FinalizeAmount)
          /\ mode' = mode
       \/ /\ ZipScalarPos > ZipScalarLen
          /\ \/ mode' = "panic" /\ pos' = pos
             \/ mode' = mode /\ pos' = [pos EXCEPT ![0] = ZipScalarLen]
    /\ trav' = "off"
    /\ fin' = TRUE
    /\ yields' = 0
    /\ UNCHANGED <<params, advanced>>
    /\ NoConsumer
    /\ UNCHANGED mvars


\* ---- eager consumers (SIMDZippedIterator::simd_do_each, simd_reduce)
Splat(x) == [k \in 1 .. W |-> x]
ReduceFunc(a, v) == [k \in 1 .. W |-> a[k] + SumMembers(v, k, N - 1)]
Starts == {0, 1}

\* while let Some(v) = self.next() { func(v) }
EachCalls(r) == IF r.some THEN Append(calls, r.v) ELSE calls
LoopPc_Once(r) == "tail"
LoopPc_Forever(r) == "loop"
LoopPc(r) == IF r.some THEN "loop" ELSE "tail"
\* if let Some((v, _)) = self.end() { func(v) }
EachTailCalls(r) == IF r.some THEN Append(calls, r.v) ELSE calls
\* start = func(start, v), for a full vector and for the tail
ReduceAcc(r) == IF r.some THEN ReduceFunc(acc, r.v) ELSE acc
ReduceTailAcc_Dropped(r) == acc
ReduceTailAcc(r) == IF r.some THEN ReduceFunc(acc, r.v) ELSE acc

SimdDoEach ==
    /\ Idle
    /\ cpc' = "loop"
    /\ ckind' = "each"
    /\ cstart' = pos[0]
    /\ cfresh' = (op = "zip")
    /\ calls' = <<>>
    /\ lanes' = 0
    /\ cnt' = ZeroCnt
    /\ cends' = 0
    /\ acc' = <<>>
    /\ cinit' = 0
    /\ op' = "simd_do_each"
    /\ ret' = None
    /\ unch' = {}
    /\ arg' = 0
    /\ UNCHANGED <<params, pos, mode, trav, advanced, fin, yields>>
    /\ UNCHANGED mvars

SimdDoEachLoop ==
    /\ mode = "zip" /\ cpc = "loop" /\ ckind = "each"
    /\ op' = "next"
    /\ ret' = ZipNextRet
    /\ CallNext(ZipNextRet)
    /\ calls' = EachCalls(ZipNextRet)
    /\ lanes' = lanes + ZipNextRet.n
    /\ cnt' = Counted(ZipNextRet)
    /\ cpc' = LoopPc(ZipNextRet)
    /\ UNCHANGED <<ckind, cstart, cinit, cfresh, cends, acc>>
    /\ UNCHANGED mvars

SimdDoEachTail ==
    /\ mode = "zip" /\ cpc = "tail" /\ ckind = "each"
    /\ op' = "end"
    /\ ret' = ZipEndRet
    /\ CallEnd(ZipEndRet)
    /\ calls' = EachTailCalls(ZipEndRet)
    /\ lanes' = lanes + ZipEndRet.n
    /\ cnt' = Counted(ZipEndRet)
    /\ cends' = cends + 1
    /\ cpc' = "done"
    /\ UNCHANGED <<ckind, cstart, cinit, cfresh, acc>>
    /\ UNCHANGED mvars

SimdReduce ==
    /\ Idle
    /\ cpc' = "loop"
    /\ ckind' = "reduce"
    /\ cstart' = pos[0]
    /\ cfresh' = (op = "zip")
    /\ calls' = <<>>
    /\ lanes' = 0
    /\ cnt' = ZeroCnt
    /\ cends' = 0
    /\ \E s \in Starts : cinit' = s /\ acc' = Splat(s)
    /\ op' = "simd_reduce"
    /\ ret' = None
    /\ unch' = {}
    /\ arg' = 0
    /\ UNCHANGED <<params, pos, mode, trav, advanced, fin, yields>>
    /\ UNCHANGED mvars

SimdReduceLoop ==
    /\ mode = "zip" /\ cpc = "loop" /\ ckind = "reduce"
    /\ op' = "next"
    /\ ret' = ZipNextRet
    /\ CallNext(ZipNextRet)
    /\ acc' = ReduceAcc(ZipNextRet)
    /\ calls' = EachCalls(ZipNextRet)
    /\ lanes' = lanes + ZipNextRet.n
    /\ cnt' = Counted(ZipNextRet)
    /\ cpc' = LoopPc(ZipNextRet)
    /\ UNCHANGED <<ckind, cstart, cinit, cfresh, cends>>
    /\ UNCHANGED mvars

SimdReduceTail ==
    /\ mode = "zip" /\ cpc = "tail" /\ ckind = "reduce"
    /\ op' = "end"
    /\ ret' = ZipEndRet
    /\ CallEnd(ZipEndRet)
    /\ acc' = ReduceTailAcc(ZipEndRet)
    /\ calls' = EachTailCalls(ZipEndRet)
    /\ lanes' = lanes + ZipEndRet.n
    /\ cnt' = Counted(ZipEndRet)
    /\ cends' = cends + 1
    /\ cpc' = "done"
    /\ UNCHANGED <<ckind, cstart, cinit, cfresh>>
    /\ UNCHANGED mvars

\* ---- SIMDZipMap
Funcs == {"id", "sum"}
Apply(f, v) ==
    IF f = "id" THEN v ELSE [k \in 1 .. W |-> SumMembers(v, k, N - 1)]

MapNextRet_DefaultOnNone ==
    LET r == ZipNextRet
    IN  IF r.some THEN Some(Apply(func, r.v), r.n)
        ELSE Some([i \in Members |-> Splat(<<>>)], 0)
MapNextRet ==
    LET r == ZipNextRet
    IN  IF r.some THEN Some(Apply(func, r.v), r.n) ELSE None
MapEndRet_NoRescale ==
    LET r == ZipEndRet
    IN  IF r.some THEN Some(Apply(func, r.v), r.n) ELSE None
MapEndRet ==
    LET r == ZipEndRet
    IN  IF r.some
        THEN Some(Apply(func, r.v), (r.n * ZipSize) \div msize)
        ELSE None
\* self.iter.advance(amount)
MapAdvancePos_Vectors(amount) == ZipAdvancePos(amount * W)
MapAdvancePos(amount) == ZipAdvancePos(amount)
\* invocations of func by next(), end() and default()
MapNextFcalls == IF ZipNextRet.some THEN fcalls + 1 ELSE fcalls
MapEndFcalls == IF ZipEndRet.some THEN fcalls + 1 ELSE fcalls
MapDefaultFcalls_Invoke == fcalls + 1
MapDefaultFcalls == fcalls
\* <Self::Vector as Packed>::default()
MapDefaultRet ==
    Some(IF func = "id" THEN [i \in Members |-> Splat(<<>>)] ELSE Splat(0), 0)
MapScalarPos == ZipScalarPos
MapScalarLen == ZipScalarLen
MapVectorLen == ZipVectorLen
MapLen == ZipLen

\* SIMDZippedIterator::simd_map
SimdMap ==
    /\ Idle
    /\ mode' = "map"
    /\ func' \in Funcs
    /\ msize' \in Sizes
    /\ op' = "simd_map"
    /\ ret' = None
    /\ unch' = {}
    /\ arg' = 0
    /\ UNCHANGED <<params, pos, trav, advanced, fin, yields>>
    /\ NoConsumer
    /\ UNCHANGED <<fcalls, myields, inner>>

MapNext ==
    /\ mode = "map"
    /\ op' = "map_next"
    /\ inner' = ZipNextRet
    /\ ret' = MapNextRet
    /\ fcalls' = MapNextFcalls
    /\ myields' = IF MapNextRet.some THEN myields + 1 ELSE myields
    /\ CallNext(ZipNextRet)
    /\ UNCHANGED <<func, msize, cvars>>

MapEnd ==
    /\ mode = "map"
    /\ op' = "map_end"
    /\ inner' = ZipEndRet
    /\ ret' = MapEndRet
    /\ fcalls' = MapEndFcalls
    /\ myields' = IF MapEndRet.some THEN myields + 1 ELSE myields
    /\ CallEnd(ZipEndRet)
    /\ UNCHANGED <<func, msize, cvars>>

\* SIMDIterable::default for SIMDZipMap
MapDefault ==
    /\ mode = "map"
    /\ op' = "map_default"
    /\ ret' = MapDefaultRet
    /\ fcalls' = MapDefaultFcalls
    /\ unch' = {}
    /\ arg' = 0
    /\ UNCHANGED <<params, pos, mode, trav, advanced, fin, yields>>
    /\ UNCHANGED <<func, msize, myields, inner, cvars>>

MapAdvance ==
    /\ mode = "map"
    /\ \E amount \in 0 .. MaxAdv :
          /\ pos[0] + amount <= lens[0] + MaxAdv
          /\ pos' = MapAdvancePos(amount)
          /\ arg' = amount
    /\ op' = "map_advance"
    /\ ret' = None
    /\ unch' = {}
    /\ trav' = "off"
    /\ yields' = 0
    /\ advanced' = TRUE
    /\ UNCHANGED <<params, mode, fin>>
    /\ UNCHANGED <<mvars, cvars>>

Next ==
    \/ Zip
    \/ ZipNext
    \/ ZipEnd
    \/ ZipAdvance
    \/ ZipFinalize
    \/ SimdDoEach
    \/ SimdDoEachLoop
    \/ SimdDoEachTail
    \/ SimdReduce
    \/ SimdReduceLoop
    \/ SimdReduceTail
    \/ SimdMap
    \/ MapNext
    \/ MapEnd
    \/ MapDefault
    \/ MapAdvance

Spec == Init /\ [][Next]_vars

\* a consumer that has been entered keeps running: it is one synchronous call
ConsumerStep ==
    \/ SimdDoEachLoop
    \/ SimdDoEachTail
    \/ SimdReduceLoop
    \/ SimdReduceTail

SpecFair == Init /\ [][Next]_vars /\ WF_vars(ConsumerStep)

\* ---- the doc example: two streams of ScenarioLen elements reduced with
\* acc + a + b, on vectors of 1, 2, 4 and 8 lanes
ScenarioWidths == {1, 2, 4, 8}

InitScenario ==
    /\ N = 2
    /\ W \in ScenarioWidths
    /\ lens = [i \in Members |-> ScenarioLen]
    /\ esize = [i \in Members |-> 1]
    /\ pos = [i \in Members |-> 0]
    /\ mode = "tuple"
    /\ func = "none"
    /\ msize = 1
    /\ op = "new"
    /\ ret = None
    /\ inner = None
    /\ arg = 0
    /\ unch = {}
    /\ trav = "next"
    /\ advanced = FALSE
    /\ fin = FALSE
    /\ yields = 0
    /\ lanes = 0
    /\ cnt = ZeroCnt
    /\ fcalls = 0
    /\ myields = 0
    /\ cpc = "idle"
    /\ ckind = "none"
    /\ cstart = 0
    /\ cinit = 0
    /\ cfresh = FALSE
    /\ calls = <<>>
    /\ cends = 0
    /\ acc = <<>>

\* the engine driven by simd_reduce alone, entered at any position advance()
\* can bring the leader to, over the small streams and over the doc example
NextScenario ==
    \/ Zip
    \/ ZipAdvance
    \/ SimdReduce
    \/ SimdReduceLoop
    \/ SimdReduceTail

SpecScenario == (Init \/ InitScenario) /\ [][NextScenario]_vars

\* ======================================================================
\* Properties
\* ======================================================================

InZip == mode = "zip"
Synced == \A i \in Members : pos[i] = pos[0]
EqualLens == \A i, j \in Members : lens[i] = lens[j]

\* the tuples a traversal entered at position p hands out: the full vectors
\* at p, p + W, ... and then the tail, if elements are left
RECURSIVE Expected(_)
Expected(p) ==
    IF p + W <= lens[0]
    THEN <<[i \in Members |-> FullVector(p)]>> \o Expected(p + W)
    ELSE IF p < lens[0]
         THEN <<[i \in Members |-> TailVector(p, lens[0] - p)]>>
         ELSE <<>>

RECURSIVE FoldLeft(_, _)
FoldLeft(a, seq) ==
    IF seq = <<>> THEN a ELSE FoldLeft(ReduceFunc(a, Head(seq)), Tail(seq))

\* C1: zip() panics exactly when two members differ in length, and then no
\* member has been advanced and nothing has been yielded; with equal lengths
\* it returns the engine over the streams as they were handed in.
C1_ZipRejectsMismatch ==
    op = "zip" =>
        /\ mode = (IF EqualLens THEN "zip" ELSE "panic")
        /\ \A i \in Members : pos[i] = 0
        /\ ~ret.some
        /\ yields = 0
C1_Witness ==
    /\ op = "zip"
    /\ mode = "panic"
    /\ N = 3
    /\ lens[0] = lens[1]
    /\ lens[2] # lens[0]

C3_FullVectorCount ==
    InZip =>
        /\ (trav = "next" /\ op = "next" => ret.some /\ yields <= lens[0] \div W)
        /\ (trav = "drained" =>
               /\ ~ret.some
               /\ yields = lens[0] \div W
               /\ ZipVectorLen = yields)
C3_Witness ==
    /\ InZip
    /\ trav = "drained"
    /\ op = "next"
    /\ yields >= 1
    /\ lens[0] % W # 0

\* C4: once next() is drained, end() yields a tail iff L % W # 0, with
\* L % W valid lanes, and every next() or end() after it yields no value.
C4_TailOnce ==
    InZip =>
        /\ (trav = "ended" /\ op = "end" =>
               /\ ret.some <=> (lens[0] % W # 0)
               /\ ret.some => ret.n = lens[0] % W)
        /\ (trav = "after" /\ op \in {"next", "end"} => ~ret.some)
C4_Witness ==
    /\ InZip
    /\ trav = "after"
    /\ op = "end"
    /\ lens[0] % W # 0
    /\ lens[0] > W

\* C5: simd_do_each on a fresh engine hands every index 0 .. L-1 of every
\* member to func exactly once as a valid lane, and the valid lanes of all
\* next() results plus the tail's add up to L.
C5_ElementConservation ==
    cpc = "done" /\ ckind = "each" /\ cfresh =>
        /\ \A i \in Members : \A j \in 0 .. (lens[0] - 1) : cnt[i][j] = 1
        /\ lanes = lens[0]
C5_Witness ==
    /\ cpc = "done"
    /\ ckind = "each"
    /\ cfresh
    /\ N = 3
    /\ lens[0] % W # 0
    /\ lens[0] > W

\* the result of an identity-mapped next() is the wrapped iterator's result
IdentityResult ==
    mode = "map" /\ func = "id" /\ op = "map_next" => ret = inner
\* an identity-mapped next() is one next() of the wrapped iterator
IdentityStep ==
    (mode = "map" /\ func = "id" /\ op' = "map_next") =>
        /\ inner' = ZipNextRet
        /\ pos' = ZipNextPos
\* C6: with the identity transform, every next() of the SIMDZipMap returns
\* what the wrapped iterator's next() returned in that call (the same value,
\* or no value), and moves the members exactly as that next() moves them.
C6_MapTransparency == [](IdentityResult) /\ [][IdentityStep]_vars
C6_Witness ==
    /\ mode = "map"
    /\ func = "id"
    /\ op = "map_next"
    /\ ~ret.some
    /\ myields >= 1

\* C7: simd_reduce returns the left fold of func over the full tuples in
\* order and then the tail (start itself when nothing is yielded); on the
\* pair of 100-element streams of 2s and 3s with start 0, 4 lanes give 25
\* full vectors, no tail and 125 in every lane, and 8 lanes give 12 full
\* vectors, a tail of 4 valid lanes and smaller sums in the last 4 lanes.
C7_Reduce ==
    cpc = "done" /\ ckind = "reduce" =>
        /\ acc = FoldLeft(Splat(cinit), Expected(cstart))
        /\ (Expected(cstart) = <<>> => acc = Splat(cinit))
        /\ (cfresh /\ cinit = 0 /\ lens[0] = ScenarioLen /\ W = 4 =>
               /\ yields = 25
               /\ ~ret.some
               /\ \A k \in 1 .. W : acc[k] = 125)
        /\ (cfresh /\ cinit = 0 /\ lens[0] = ScenarioLen /\ W = 8 =>
               /\ yields = 12
               /\ ret.some
               /\ ret.n = 4
               /\ \A k \in 1 .. 4 : \A m \in 5 .. 8 : acc[m] < acc[k])
C7_Witness ==
    /\ cpc = "done"
    /\ ckind = "reduce"
    /\ cfresh
    /\ cinit = 0
    /\ lens[0] = ScenarioLen
    /\ W = 8
    /\ acc[8] = 60
    /\ acc[1] = 65

\* C8: simd_do_each calls func on the full tuples in the order next() yields
\* them, calls end() once and only after next() yielded no value, and calls
\* func on the tail last, iff there is one: on a fresh engine that makes
\* floor(L / W) calls, plus one when L % W # 0.
C8_DoEachCalls ==
    ckind = "each" =>
        /\ (cpc = "loop" => cends = 0 /\ (op = "next" => ret.some))
        /\ (cpc = "tail" => cends = 0 /\ op = "next" /\ ~ret.some)
        /\ (cpc = "done" =>
               /\ cends = 1
               /\ calls = Expected(cstart)
               /\ (cfresh => Len(calls) = (lens[0] \div W)
                                 + (IF lens[0] % W # 0 THEN 1 ELSE 0)))
C8_Witness ==
    /\ cpc = "done"
    /\ ckind = "each"
    /\ cfresh
    /\ Len(calls) = 2
    /\ lens[0] % W # 0

\* C9: SIMDZipMap::end yields no value exactly when the wrapped end() does;
\* otherwise it yields func of the wrapped tail with the count
\* floor(n * inner.size / self.size), which is n when the sizes agree.
C9_MapEnd ==
    mode = "map" /\ op = "map_end" =>
        /\ ret.some <=> inner.some
        /\ inner.some =>
               /\ ret.v = Apply(func, inner.v)
               /\ ret.n = (inner.n * esize[0]) \div msize
               /\ (msize = esize[0] => ret.n = inner.n)
C9_Witness ==
    /\ mode = "map"
    /\ op = "map_end"
    /\ ret.some
    /\ inner.n = 3
    /\ esize[0] = 1
    /\ msize = 2
    /\ ret.n = 1

\* C10: finalize() on an engine that only next() and end() have been called
\* on yields nothing and leaves scalar_pos = scalar_len, and every next() and
\* end() after it yields no value.
C10_Finalize ==
    InZip /\ fin /\ ~advanced =>
        /\ (op = "finalize" => ZipScalarPos = ZipScalarLen /\ ~ret.some)
        /\ (op \in {"next", "end"} => ~ret.some /\ ZipScalarPos = ZipScalarLen)
C10_Witness ==
    /\ InZip
    /\ fin
    /\ ~advanced
    /\ op = "end"
    /\ pos[1] < lens[1]

ReportsLeader ==
    InZip =>
        /\ ZipScalarLen = lens[0]
        /\ \A i \in Members : lens[i] = ZipScalarLen
        /\ ZipSize = esize[0]
        /\ ZipWidth = W
\* no call on the engine changes what it reports
ReportsKept ==
    InZip /\ InZip' =>
        /\ ZipSize' = ZipSize
        /\ ZipWidth' = ZipWidth
        /\ ZipScalarLen' = ZipScalarLen
C12_SameRange ==
    InZip /\ op = "next" /\ ret.some =>
        \A i \in Members : \A k \in 1 .. W :
            ret.v[i][k] = <<(pos[0] - W) + k - 1>>
C12_Witness ==
    /\ InZip
    /\ N = 3
    /\ advanced
    /\ op = "next"
    /\ ret.some
    /\ (pos[0] - W) % W # 0

\* C13: every unchecked follower access lies inside the follower's data:
\* next_unchecked(p) has p + W <= L and end_unchecked(p, n) has p + n <= L.
C13_AccessInBounds ==
    \A a \in unch : a.p >= 0 /\ a.n >= 1 /\ a.p + a.n <= lens[a.i]
C13_Witness ==
    /\ advanced
    /\ op = "end"
    /\ \E a \in unch : a.i = 2 /\ a.n < W /\ a.p + a.n = lens[2]

\* C14: a tail of end() with count n holds, for every member, that member's
\* elements [p, p + n) in its first n lanes and the default in the others,
\* n being the leader's count and p the position before the call.
C14_TailLanes ==
    InZip /\ op = "end" /\ ret.some =>
        /\ ret.n >= 1
        /\ ret.n = Min(W, lens[0] - (pos[0] - ret.n))
        /\ \A a \in unch : a.n = ret.n /\ a.p = pos[0] - ret.n
        /\ \A i \in Members : \A k \in 1 .. W :
              ret.v[i][k] = (IF k <= ret.n THEN <<(pos[0] - ret.n) + k - 1>>
                             ELSE <<>>)
C14_Witness ==
    /\ InZip
    /\ N = 3
    /\ op = "end"
    /\ ret.some
    /\ ret.n = 2
    /\ W = 3
    /\ pos[0] - ret.n > 0

\* a next() or end() whose leader call yields no value
LeaderNone ==
    /\ InZip /\ op' = "next" /\ ~StreamNext(0, pos[0]).some =>
          /\ ~ret'.some
          /\ unch' = {}
          /\ \A i \in Followers : pos'[i] = pos[i]
    /\ InZip /\ op' = "end" /\ ~StreamEnd(0, pos[0]).some =>
          /\ ~ret'.some
          /\ unch' = {}
          /\ \A i \in Followers : pos'[i] = pos[i]
\* C15: when the leader's next() (end()) yields no value, so does the
\* engine's, and no follower is accessed or moved.
C15_NoFollowerAccess == [][LeaderNone]_vars
C15_Witness ==
    /\ InZip
    /\ op = "next"
    /\ ~ret.some
    /\ unch = {}
    /\ pos[1] < pos[0]
    /\ pos[0] < lens[0]

\* an advance(amount) step, and the steps that move a follower
AdvanceStep ==
    /\ InZip /\ op' = "advance" =>
          /\ ~ret'.some
          /\ unch' = {}
          /\ pos'[0] = pos[0] + arg'
          /\ \A i \in Followers : pos'[i] = pos[i]
    /\ InZip /\ (\E i \in Followers : pos'[i] # pos[i]) =>
          /\ op' \in {"next", "end"}
          /\ ret'.some
          /\ \A i \in Members : pos'[i] = pos'[0]
\* C16: advance(amount) yields nothing, moves the leader by amount and leaves
\* the followers alone; a follower moves only in a next() or end() that
\* yields, which puts it at the leader's position.
C16_AdvanceLeaderOnly == [][AdvanceStep]_vars
C16_Witness ==
    /\ InZip
    /\ N = 3
    /\ op = "advance"
    /\ arg = 2
    /\ pos[0] = pos[2] + 2

\* C17: scalar_pos never exceeds scalar_len, and nothing but zip() fails.
C17_NoOverrun ==
    /\ mode \in {"zip", "map"} => ZipScalarPos <= ZipScalarLen
    /\ mode = "panic" => op = "zip"

\* a yielding next() of a consumer moves the leader up by W, within the data
LoopProgress ==
    cpc = "loop" /\ cpc' = "loop" =>
        /\ pos'[0] = pos[0] + W
        /\ pos'[0] <= lens[0]
        /\ Len(calls') = Len(calls) + 1
\* the loop makes at most floor(L / W) iterations, and end() is called once
LoopBound ==
    /\ cpc \in {"loop", "tail"} => Len(calls) <= lens[0] \div W /\ cends = 0
    /\ cpc = "done" => cends = 1
\* C18: simd_do_each and simd_reduce terminate: every next() that yields
\* moves scalar_pos up by W, so the loop ends within floor(L / W)
\* iterations, end() is called exactly once and the consumer returns.
C18_Terminates ==
    /\ [](LoopBound)
    /\ [][LoopProgress]_vars
    /\ (cpc \in {"loop", "tail"}) ~> (cpc = "done")
C18_Witness ==
    /\ cpc = "done"
    /\ ckind = "reduce"
    /\ Len(calls) = lens[0] \div W
    /\ Len(calls) >= 2
    /\ cends = 1

\* a SIMDZipMap answers position and length queries with the wrapped answers
MapDelegates ==
    mode = "map" =>
        /\ MapScalarPos = ZipScalarPos
        /\ MapScalarLen = ZipScalarLen
        /\ MapVectorLen = ZipVectorLen
        /\ MapLen = ZipLen
\* an advance(amount) on the SIMDZipMap is advance(amount) on the wrapped Zip
MapAdvanceStep ==
    op' = "map_advance" =>
        /\ pos'[0] = pos[0] + arg'
        /\ \A i \in Followers : pos'[i] = pos[i]
\* C19: a SIMDZipMap has no position of its own: scalar_pos, scalar_len,
\* vector_len and len are the wrapped iterator's, and advance(amount)
\* advances the wrapped iterator by exactly amount.
C19_MapStateless == [](MapDelegates) /\ [][MapAdvanceStep]_vars
C19_Witness ==
    /\ mode = "map"
    /\ op = "map_advance"
    /\ arg = 2
    /\ W >= 2
    /\ myields >= 1

\* the transform runs once per value yielded, and in next() and end() only
TransformStep ==
    /\ fcalls' # fcalls =>
          /\ op' \in {"map_next", "map_end"}
          /\ inner'.some
          /\ ret'.some
          /\ fcalls' = fcalls + 1
    /\ myields' # myields => fcalls' = fcalls + 1 /\ myields' = myields + 1
\* C20: the SIMDZipMap calls its transform exactly once per value it yields,
\* never when the wrapped iterator yields no value and never in default(),
\* advance() or a query, so the two counts are always equal.
C20_TransformPerYield == [](fcalls = myields) /\ [][TransformStep]_vars
C20_Witness ==
    /\ mode = "map"
    /\ op = "map_default"
    /\ myields >= 2
    /\ fcalls = myields

====
